---- MODULE Spec2Model ----
(***************************************************************************)
(* Model of the virtual-browser server (src/server.js, the streaming       *)
(* prototype at lines 258-572): one global browser session shared by the   *)
(* startup call, the HTTP control commands and the per-viewer streaming     *)
(* ticks.  Node runs every handler on one thread, so one action of the     *)
(* model is the code that runs between two suspension points (await): an   *)
(* action resumes one handler and runs it, through every synchronous call  *)
(* and promise continuation, up to the next await or to the handler's end. *)
(***************************************************************************)
EXTENDS Integers, Sequences, FiniteSets, TLC

----------------------------------------------------------------------------
(* Bounds of the model *)
MaxLaunch   == 5   \* puppeteer.launch invocations: more than MaxFailures
                   \* failures can cause with one tick in flight, so that
                   \* the bound cuts no initialization short
MaxCaptures == 2   \* page.screenshot invocations
MaxFailures == 1   \* backend failures: crashes, and calls that fail although
                   \* their target is alive
MaxRequests == 2   \* control requests received
MaxTail     == 2   \* characters of a target address after its head

(* Program constants *)
Null       == 0     \* null: no browser, no page, no cached frame
CONNECTING == 0     \* ws.readyState before the connection event
OPEN       == 1     \* ws.readyState of an open connection
CLOSING    == 2     \* ws.readyState once the connection has failed or is closing
CLOSED    == 3      \* ws.readyState of a closed connection
Tolerance == 1000   \* size difference below which two frames are similar

Startup == "listen"
Cmds    == {"req1"}
Ticks   == {"tick1", "tick2"}
Subs    == {"ws1", "ws2"}
Procs   == {Startup} \cup Cmds \cup Ticks

Kinds     == {"navigate", "click", "type", "key", "scroll",
              "back", "forward", "refresh", "url"}
(* the click handler without its `previousScreenshot = null` *)
ResettingNoClick == {"navigate", "back", "forward", "refresh"}
Resetting == {"navigate", "click", "back", "forward", "refresh"}
Sizes     == {1000, 1500, 2000}   \* encoded lengths a capture can have
Ids       == 1..(MaxLaunch + 1)   \* identities of launched browsers; the page
                                  \* opened on browser b carries the same b

(* Target addresses are sequences of characters: a head, which is a scheme *)
(* or a near miss of one, followed by a tail.                              *)
HttpScheme  == << "h", "t", "t", "p", ":", "/", "/" >>
HttpsScheme == << "h", "t", "t", "p", "s", ":", "/", "/" >>
Heads ==
  { << >>, HttpScheme, HttpsScheme,
    << "h", "t", "t", "p", ":", "/" >>,
    << "h", "t", "t", "p", "s", ":", "/" >>,
    << "h", "t", "t", "p", "/", "/" >>,
    << "h", "t", "p", ":", "/", "/" >>,
    << "h", "t", "t", "p", "s", "s", ":", "/", "/" >>,
    << "H", "T", "T", "P", ":", "/", "/" >>,
    << "f", "t", "p", ":", "/", "/" >>,
    << "a", "h", "t", "t", "p", ":", "/", "/" >>,
    << "/", "/" >> }
TailChars == {"a", "/", "h"}
Tails == UNION { [1..n -> TailChars] : n \in 0..MaxTail }
Urls  == { h \o t : h \in Heads, t \in Tails }
OneUrl == { << "a" >> }

InitSection == {"close", "launch", "newPage", "setViewport", "goto"}

VARIABLES
  browser,            \* global: id of the browser, or Null
  page,               \* global: id of the page, or Null
  previousScreenshot, \* global: length of the cached frame, or Null
  isInitializing,     \* global flag
  pc,                 \* per handler: the await it is suspended at
  site,               \* per handler: the call site of its initBrowser call
  loc,                \* per handler: the object its pending backend call is on
  buf,                \* per tick: the frame being encoded
  kind,               \* per request: the command
  owner,              \* per tick: the connection whose interval fired it
  streaming,          \* per connection: the closure's streaming flag
  readyState,         \* per connection: ws.readyState
  streamInterval,     \* per connection: the interval is set
  alive,              \* backend: browsers launched and still running
  closed,             \* backend: pages that report isClosed()
  launches,           \* history: puppeteer.launch invocations
  captures,           \* history: page.screenshot invocations
  faults, crashes, requests,   \* history: budget counters
  res,                \* per request: the response it was given
  ret,                \* per handler: what its initBrowser call returned to it,
                      \* and whether the call waited in the loop
  sent,               \* per connection: frames passed to ws.send, in order
  missed,             \* history: connections live when a frame was emitted
                      \* that were not sent it
  opLive,             \* per request: its operation ran on the Ready session's page
  lastFail,           \* history: the state a failed initBrowser call ended in
  landingFailed,      \* history: pages whose landing navigation failed
  nav                 \* per request: url of the body of the last navigate
                      \* request, the finalUrl computed from it and the url
                      \* of the response

vars == << browser, page, previousScreenshot, isInitializing, pc, site, loc,
           buf, kind, owner, streaming, readyState, streamInterval, alive,
           closed, launches, captures, faults, crashes, requests, res, ret,
           sent, missed, opLive, lastFail, landingFailed, nav >>

State ==
  [ browser |-> browser, page |-> page,
    previousScreenshot |-> previousScreenshot,
    isInitializing |-> isInitializing, pc |-> pc, site |-> site, loc |-> loc,
    buf |-> buf, kind |-> kind, owner |-> owner, streaming |-> streaming,
    readyState |-> readyState, streamInterval |-> streamInterval,
    alive |-> alive, closed |-> closed, launches |-> launches,
    captures |-> captures, faults |-> faults, crashes |-> crashes,
    requests |-> requests, res |-> res, ret |-> ret, sent |-> sent,
    missed |-> missed, opLive |-> opLive,
    lastFail |-> lastFail, landingFailed |-> landingFailed, nav |-> nav ]

Commit(s) ==
  /\ browser' = s.browser
  /\ page' = s.page
  /\ previousScreenshot' = s.previousScreenshot
  /\ isInitializing' = s.isInitializing
  /\ pc' = s.pc
  /\ site' = s.site
  /\ loc' = s.loc
  /\ buf' = s.buf
  /\ kind' = s.kind
  /\ owner' = s.owner
  /\ streaming' = s.streaming
  /\ readyState' = s.readyState
  /\ streamInterval' = s.streamInterval
  /\ alive' = s.alive
  /\ closed' = s.closed
  /\ launches' = s.launches
  /\ captures' = s.captures
  /\ faults' = s.faults
  /\ crashes' = s.crashes
  /\ requests' = s.requests
  /\ res' = s.res
  /\ ret' = s.ret
  /\ sent' = s.sent
  /\ missed' = s.missed
  /\ opLive' = s.opLive
  /\ lastFail' = s.lastFail
  /\ landingFailed' = s.landingFailed
  /\ nav' = s.nav

(* The counters stay within the bounds of the model *)
WithinBounds(s) ==
  /\ s.launches <= MaxLaunch
  /\ s.captures <= MaxCaptures
  /\ s.faults + s.crashes <= MaxFailures
  /\ s.requests <= MaxRequests

Step(s) == WithinBounds(s) /\ Commit(s)

NoFrame == [seq |-> 0, sess |-> Null, size |-> 0]
NoRet   == [browser |-> Null, page |-> Null, set |-> FALSE, waited |-> FALSE]
NoNav   == [url |-> << >>, finalUrl |-> << >>, reply |-> << >>]
NoFail  == [stage |-> "none", browser |-> Null, page |-> Null,
            isInitializing |-> FALSE, thrown |-> FALSE]

Init ==
  /\ browser = Null
  /\ page = Null
  /\ previousScreenshot = Null
  /\ isInitializing = FALSE
  /\ pc = [p \in Procs |-> "idle"]
  /\ site = [p \in Procs |-> "none"]
  /\ loc = [p \in Procs |-> Null]
  /\ buf = [t \in Ticks |-> NoFrame]
  /\ kind = [c \in Cmds |-> "url"]
  /\ owner = [t \in Ticks |-> "ws1"]
  /\ streaming = [w \in Subs |-> FALSE]
  /\ readyState = [w \in Subs |-> CONNECTING]
  /\ streamInterval = [w \in Subs |-> FALSE]
  /\ alive = {}
  /\ closed = {}
  /\ launches = 0
  /\ captures = 0
  /\ faults = 0
  /\ crashes = 0
  /\ requests = 0
  /\ res = [c \in Cmds |-> "none"]
  /\ ret = [p \in Procs |-> NoRet]
  /\ sent = [w \in Subs |-> << >>]
  /\ missed = {}
  /\ opLive = [c \in Cmds |-> TRUE]
  /\ lastFail = NoFail
  /\ landingFailed = {}
  /\ nav = [c \in Cmds |-> NoNav]

----------------------------------------------------------------------------
(* The outcomes a backend call on `target` can have: it fails when its     *)
(* target is gone, and may fail (timeout, protocol error) when it is not.  *)
Outcomes(s, targetAlive) ==
  IF ~targetAlive THEN {"fail"}
  ELSE {"ok", "fail"}

Charge(s, targetAlive, out) ==
  IF targetAlive /\ out = "fail" THEN [s EXCEPT !.faults = @ + 1] ELSE s

(* page.isClosed() *)
isClosed(s, pg) == pg \in s.closed

(* the validity check with its negation dropped: page.isClosed() instead   *)
(* of !page.isClosed()                                                      *)
ReadyNegated(s) == s.browser # Null /\ s.page # Null /\ isClosed(s, s.page)

(* browser && page && !page.isClosed() *)
Ready(s) == s.browser # Null /\ s.page # Null /\ ~isClosed(s, s.page)

Live(s) == {w \in Subs : s.readyState[w] = OPEN /\ s.streaming[w]}

(* a handler ends: its locals go out of scope *)
End(s, p) ==
  [s EXCEPT !.pc[p] = IF p = Startup THEN "done" ELSE "idle",
            !.site[p] = "none", !.loc[p] = Null, !.ret[p] = NoRet]

(* res.json(...) / res.status(500).json(...) of an API handler; the        *)
(* request body (kind) is dropped with the handler                          *)
Respond(s, c, how) ==
  [End(s, c) EXCEPT !.res[c] = how, !.kind[c] = "url"]

----------------------------------------------------------------------------
RECURSIVE initBrowser(_, _, _)

(* the interval callback without its readyState test: it sends whatever    *)
(* frame it got                                                             *)
streamSendUnchecked(s, t, frame) ==
  LET w  == s.owner[t]
      s1 == [End(s, t) EXCEPT !.buf[t] = NoFrame, !.owner[t] = "ws1"]
  IN IF frame # NoFrame
     THEN [s1 EXCEPT !.sent[w] = Append(@, [seq |-> frame.seq,
                                             sess |-> frame.sess,
                                             cur |-> s.page,
                                             late |-> ~s.streaming[w]]),
                     !.missed = @ \cup (Live(s) \ {w})]
     ELSE s1

(* streamInterval callback, lines 530-536: getOptimizedScreenshot returned  *)
(* `frame` (NoFrame stands for null) to tick t, which sends it on its own   *)
(* ws when that is open; `missed` records the live connections that are     *)
(* not sent an emitted frame, `late` that the close or error handler of    *)
(* the connection had already run when the frame was sent                   *)
streamSend(s, t, frame) ==
  LET w  == s.owner[t]
      s1 == [End(s, t) EXCEPT !.buf[t] = NoFrame, !.owner[t] = "ws1"]
  IN IF frame # NoFrame /\ s.readyState[w] = OPEN
     THEN [s1 EXCEPT !.sent[w] = Append(@, [seq |-> frame.seq,
                                             sess |-> frame.sess,
                                             cur |-> s.page,
                                             late |-> ~s.streaming[w]]),
                     !.missed = @ \cup (Live(s) \ {w})]
     ELSE [s1 EXCEPT !.missed = @ \cup (IF frame # NoFrame THEN Live(s) ELSE {})]

(* the size test with <= in place of < *)
similarInclusive(prev, len) ==
  prev # Null /\ (IF len >= prev THEN len - prev ELSE prev - len) <= Tolerance

(* Math.abs(compressed.length - previousScreenshot.length) < 1000 *)
similar(prev, len) ==
  prev # Null /\ (IF len >= prev THEN len - prev ELSE prev - len) < Tolerance

(* getOptimizedScreenshot, lines 375-381, then the callback's send *)
detectChange(s, t) ==
  LET f == s.buf[t] IN
  IF similar(s.previousScreenshot, f.size)
  THEN streamSend(s, t, NoFrame)
  ELSE streamSend([s EXCEPT !.previousScreenshot = f.size], t, f)

(* the catch block without its `previousScreenshot = null` *)
screenshotCatchKeepCache(s, t) ==
  initBrowser([s EXCEPT !.browser = Null, !.page = Null], t, "L393")

(* getOptimizedScreenshot, lines 383-393: the catch block up to its         *)
(* initBrowser call                                                          *)
screenshotCatch(s, t) ==
  initBrowser([s EXCEPT !.browser = Null, !.page = Null,
                        !.previousScreenshot = Null], t, "L393")

(* getOptimizedScreenshot, line 363: page.screenshot() on the global page   *)
takeScreenshot(s, t) ==
  IF s.page = Null THEN screenshotCatch(s, t)   \* TypeError on null
  ELSE [s EXCEPT !.pc[t] = "screenshot", !.loc[t] = s.page]

(* a test that accepts the insecure scheme only: /^http:\/\// *)
matchInsecureOnly(url) ==
  Len(url) >= Len(HttpScheme) /\ SubSeq(url, 1, Len(HttpScheme)) = HttpScheme

(* url.match(/^https?:\/\//), line 409 *)
match(url) ==
  \/ Len(url) >= Len(HttpScheme) /\ SubSeq(url, 1, Len(HttpScheme)) = HttpScheme
  \/ Len(url) >= Len(HttpsScheme) /\ SubSeq(url, 1, Len(HttpsScheme)) = HttpsScheme

(* /api/navigate, lines 408-411 *)
finalUrl(url) == IF ~match(url) THEN HttpsScheme \o url ELSE url

(* an API handler after `const { page } = await initBrowser()`              *)
runCommand(s0, c) ==
  LET s  == IF s0.kind[c] = "navigate"
            THEN [s0 EXCEPT !.nav[c].finalUrl = finalUrl(s0.nav[c].url)]
            ELSE s0
      pg == s.page IN
  IF pg = Null THEN Respond(s, c, "err")       \* TypeError on null, caught
  ELSE LET s1 == [s EXCEPT !.opLive[c] = Ready(s)] IN
       IF s.kind[c] = "url" THEN Respond(s1, c, "ok")   \* page.url() is synchronous
       ELSE [s1 EXCEPT !.pc[c] = "op", !.loc[c] = pg]

(* the continuation of the caller when initBrowser returns {browser, page}  *)
Resolved(s, p) ==
  LET s1 == [s EXCEPT !.ret[p] = [browser |-> s.browser, page |-> s.page,
                                  set |-> TRUE, waited |-> s.ret[p].waited]]
  IN CASE s.site[p] = "L513" -> End(s1, p)
       [] s.site[p] = "api"  -> runCommand(s1, p)
       [] s.site[p] = "L352" ->
            IF s1.page = Null \/ isClosed(s1, s1.page)
            THEN initBrowser([s1 EXCEPT !.browser = Null, !.page = Null], p, "L359")
            ELSE takeScreenshot(s1, p)
       [] s.site[p] = "L359" -> takeScreenshot(s1, p)
       [] s.site[p] = "L393" -> streamSend(s1, p, NoFrame)

(* the continuation of the caller when initBrowser throws                   *)
Rejected(s0, p) ==
  LET s == [s0 EXCEPT !.lastFail.thrown = TRUE] IN
  CASE s.site[p] = "L513" -> End(s, p)
    [] s.site[p] = "api"  -> Respond(s, p, "err")
    [] s.site[p] \in {"L352", "L359"} -> screenshotCatch(s, p)
    [] s.site[p] = "L393" -> streamSend(s, p, NoFrame)

(* the catch block without its `isInitializing = false` *)
clearSessionKeepFlag(s) ==
  [s EXCEPT !.browser = Null, !.page = Null]

(* the catch block without its `browser = null` *)
clearSessionKeepBrowser(s) ==
  [s EXCEPT !.isInitializing = FALSE, !.page = Null]

(* initBrowser, lines 341-344 *)
clearSession(s) ==
  [s EXCEPT !.isInitializing = FALSE, !.browser = Null, !.page = Null]

(* initBrowser, lines 340-346: the catch block *)
initBrowserCatch(s, p, stage) ==
  LET s1 == clearSession(s)
      s2 == [s1 EXCEPT !.lastFail = [stage |-> stage, browser |-> s1.browser,
                                     page |-> s1.page,
                                     isInitializing |-> s1.isInitializing,
                                     thrown |-> FALSE]]
  IN Rejected(s2, p)

(* initBrowser, line 305: puppeteer.launch is invoked *)
startLaunch(s, p) ==
  [s EXCEPT !.pc[p] = "launch", !.launches = @ + 1, !.loc[p] = s.launches + 1]

(* initBrowser without its validity check: it initializes every time *)
initBodyAlways(s, p) ==
  LET s1 == [s EXCEPT !.isInitializing = TRUE] IN
  IF s1.browser # Null
  THEN [s1 EXCEPT !.pc[p] = "close", !.loc[p] = s1.browser]
  ELSE startLaunch(s1, p)

(* initBrowser, lines 286-305: from the validity check to the first await   *)
initBody(s, p) ==
  IF Ready(s) THEN Resolved(s, p)
  ELSE LET s1 == [s EXCEPT !.isInitializing = TRUE] IN
       IF s1.browser # Null
       THEN [s1 EXCEPT !.pc[p] = "close", !.loc[p] = s1.browser]
       ELSE startLaunch(s1, p)

(* initBrowser without its wait loop *)
initBrowserNoWait(s, p, from) ==
  initBody([s EXCEPT !.site[p] = from, !.ret[p] = NoRet], p)

(* initBrowser, lines 280-284: entry and the wait loop *)
initBrowser(s, p, from) ==
  LET s1 == [s EXCEPT !.site[p] = from, !.ret[p] = NoRet] IN
  IF s1.isInitializing THEN [s1 EXCEPT !.pc[p] = "wait"]
  ELSE initBody(s1, p)

----------------------------------------------------------------------------
(* the server accepts requests and connections once it listens, line 511 *)
listening == pc[Startup] # "idle"

(* app.listen callback, lines 511-516 *)
Listen ==
  /\ pc[Startup] = "idle"
  /\ Step(initBrowser(State, Startup, "L513"))

(* an API request arrives, lines 403-509 *)
Request(c, k, u) ==
  /\ listening
  /\ pc[c] = "idle"
  /\ Step(initBrowser([State EXCEPT !.kind[c] = k, !.requests = @ + 1,
                                    !.res[c] = "none", !.opLive[c] = TRUE,
                                    !.nav[c] = IF k = "navigate"
                                               THEN [NoNav EXCEPT !.url = u]
                                               ELSE @],
                      c, "api"))

(* the 100 ms timer of the wait loop fires, lines 282-284 *)
Wake(p) ==
  /\ pc[p] = "wait"
  /\ ~isInitializing
  /\ Step(initBody([State EXCEPT !.ret[p].waited = TRUE], p))

(* browser.close() settles, lines 296-305 *)
CloseDone(p, out) ==
  /\ pc[p] = "close"
  /\ out \in Outcomes(State, loc[p] \in alive)
  /\ LET s1 == Charge(State, loc[p] \in alive, out)
           s2 == IF out = "ok"
                 THEN [s1 EXCEPT !.alive = @ \ {loc[p]}, !.closed = @ \cup {loc[p]}]
                 ELSE s1
       IN Step(startLaunch(s2, p))

(* puppeteer.launch settles, lines 305-322 *)
LaunchDone(p, out) ==
  /\ pc[p] = "launch"
  /\ out \in Outcomes(State, TRUE)
  /\ LET s1 == Charge(State, TRUE, out) IN
       IF out = "ok"
       THEN Step([s1 EXCEPT !.browser = loc[p], !.alive = @ \cup {loc[p]},
                            !.pc[p] = "newPage"])
       ELSE Step(initBrowserCatch(s1, p, "launch"))

(* browser.newPage() settles, lines 322-323 *)
NewPageDone(p, out) ==
  /\ pc[p] = "newPage"
  /\ out \in Outcomes(State, loc[p] \in alive)
  /\ LET s1 == Charge(State, loc[p] \in alive, out) IN
       IF out = "ok"
       THEN Step([s1 EXCEPT !.page = loc[p], !.pc[p] = "setViewport"])
       ELSE Step(initBrowserCatch(s1, p, "newPage"))

(* page.setViewport() settles, lines 323-329 *)
ViewportDone(p, out) ==
  /\ pc[p] = "setViewport"
  /\ out \in Outcomes(State, ~isClosed(State, loc[p]))
  /\ LET s1 == Charge(State, ~isClosed(State, loc[p]), out) IN
       IF out = "ok" /\ s1.page # Null
       THEN Step([s1 EXCEPT !.pc[p] = "goto", !.loc[p] = s1.page])
       ELSE Step(initBrowserCatch(s1, p, "setViewport"))

(* page.goto(landing) settles, lines 329-338: a failure is only logged *)
GotoDone(p, out) ==
  /\ pc[p] = "goto"
  /\ out \in Outcomes(State, ~isClosed(State, loc[p]))
  /\ LET s1 == Charge(State, ~isClosed(State, loc[p]), out)
           s2 == IF out = "fail"
                 THEN [s1 EXCEPT !.landingFailed = @ \cup {loc[p]}]
                 ELSE s1
       IN Step(Resolved([s2 EXCEPT !.isInitializing = FALSE], p))

(* the backend operation of a command settles *)
OpDone(c, out) ==
  /\ pc[c] = "op"
  /\ out \in Outcomes(State, ~isClosed(State, loc[c]))
  /\ LET s1 == Charge(State, ~isClosed(State, loc[c]), out) IN
       IF out = "ok"
       THEN LET s2 == IF kind[c] \in Resetting
                      THEN [s1 EXCEPT !.previousScreenshot = Null]
                      ELSE s1
                s3 == IF kind[c] = "navigate"
                      THEN [s2 EXCEPT !.nav[c].reply = s2.nav[c].finalUrl]
                      ELSE s2
            IN Step(Respond(s3, c, "ok"))
       ELSE Step(Respond(s1, c, "err"))

(* wss.on('connection'), lines 521-526 *)
Connect(w) ==
  /\ listening
  /\ readyState[w] = CONNECTING
  /\ Step([State EXCEPT !.readyState[w] = OPEN, !.streaming[w] = TRUE,
                        !.streamInterval[w] = TRUE])

(* the interval of connection w fires, lines 526-530 *)
TickFire(t, w) ==
  /\ pc[t] = "idle"
  /\ streamInterval[w]
  /\ streaming[w]
  /\ Step(initBrowser([State EXCEPT !.owner[t] = w], t, "L352"))

(* page.screenshot() settles, lines 363-373 *)
ScreenshotDone(t, out, sz) ==
  /\ pc[t] = "screenshot"
  /\ out \in Outcomes(State, ~isClosed(State, loc[t]))
  /\ LET s1 == Charge(State, ~isClosed(State, loc[t]), out) IN
       IF out = "ok"
       THEN Step([s1 EXCEPT !.captures = @ + 1,
                            !.buf[t] = [seq |-> s1.captures + 1,
                                        sess |-> loc[t], size |-> sz],
                            !.pc[t] = "sharp"])
       ELSE Step(screenshotCatch(s1, t))

(* sharp(...).toBuffer() settles, lines 370-381 and 531-536 *)
SharpDone(t, out) ==
  /\ pc[t] = "sharp"
  /\ out \in Outcomes(State, TRUE)
  /\ LET s1 == Charge(State, TRUE, out) IN
       IF out = "ok" THEN Step(detectChange(s1, t))
       ELSE Step(screenshotCatch(s1, t))

(* a close handler that stops the streaming of every connection *)
CloseEvery(w) ==
  /\ readyState[w] \in {OPEN, CLOSING}
  /\ Step([State EXCEPT !.readyState[w] = CLOSED,
                        !.streaming = [v \in Subs |-> FALSE],
                        !.streamInterval = [v \in Subs |-> FALSE]])

(* ws.on('close'), lines 542-546: the ws library has set readyState to     *)
(* CLOSED when it emits the event, also after an error                      *)
Close(w) ==
  /\ readyState[w] \in {OPEN, CLOSING}
  /\ Step([State EXCEPT !.readyState[w] = CLOSED, !.streaming[w] = FALSE,
                        !.streamInterval[w] = FALSE])

(* ws.on('error'), lines 548-552: the ws library emits the event after it  *)
(* has begun to close the failed connection (readyState is CLOSING)        *)
Error(w) ==
  /\ readyState[w] = OPEN
  /\ streaming[w]
  /\ Step([State EXCEPT !.readyState[w] = CLOSING, !.streaming[w] = FALSE,
                        !.streamInterval[w] = FALSE])

(* the backend of browser b dies: its page reports closed *)
Crash(b) ==
  /\ b \in alive
  /\ Step([State EXCEPT !.alive = @ \ {b}, !.closed = @ \cup {b},
                        !.crashes = @ + 1])

Outs == {"ok", "fail"}

Next ==
  \/ Listen
  \/ \E c \in Cmds, k \in Kinds, u \in Urls : Request(c, k, u)
  \/ \E p \in Procs : Wake(p)
  \/ \E p \in Procs, out \in Outs : CloseDone(p, out)
  \/ \E p \in Procs, out \in Outs : LaunchDone(p, out)
  \/ \E p \in Procs, out \in Outs : NewPageDone(p, out)
  \/ \E p \in Procs, out \in Outs : ViewportDone(p, out)
  \/ \E p \in Procs, out \in Outs : GotoDone(p, out)
  \/ \E c \in Cmds, out \in Outs : OpDone(c, out)
  \/ \E w \in Subs : Connect(w)
  \/ \E t \in Ticks, w \in Subs : TickFire(t, w)
  \/ \E t \in Ticks, out \in Outs, sz \in Sizes : ScreenshotDone(t, out, sz)
  \/ \E t \in Ticks, out \in Outs : SharpDone(t, out)
  \/ \E w \in Subs : Close(w)
  \/ \E w \in Subs : Error(w)
  \/ \E b \in Ids : Crash(b)

Spec == Init /\ [][Next]_vars

(* The session life cycle under one viewer that stays connected and has    *)
(* one tick in flight at a time: every kind of caller of initBrowser,      *)
(* every backend failure and crash; one command of                         *)
(* each class (resets the cached frame, leaves it, synchronous); every     *)
(* capture has the same encoded length.                                    *)
RepKinds == {"navigate", "type", "url"}
OneSize  == {1500}
NextSession ==
  \/ Listen
  \/ \E c \in Cmds, k \in RepKinds, u \in OneUrl : Request(c, k, u)
  \/ \E p \in Procs : Wake(p)
  \/ \E p \in Procs, out \in Outs : CloseDone(p, out)
  \/ \E p \in Procs, out \in Outs : LaunchDone(p, out)
  \/ \E p \in Procs, out \in Outs : NewPageDone(p, out)
  \/ \E p \in Procs, out \in Outs : ViewportDone(p, out)
  \/ \E p \in Procs, out \in Outs : GotoDone(p, out)
  \/ \E c \in Cmds, out \in Outs : OpDone(c, out)
  \/ Connect("ws1")
  \/ TickFire("tick1", "ws1")
  \/ \E t \in Ticks, out \in Outs, sz \in OneSize : ScreenshotDone(t, out, sz)
  \/ \E t \in Ticks, out \in Outs : SharpDone(t, out)
  \/ \E b \in Ids : Crash(b)

SpecSession == Init /\ [][NextSession]_vars

(* The session life cycle when every backend call of an initialization    *)
(* settles and the timer of every wait loop fires: requests, ticks,        *)
(* connections, crashes and the settling of captures and operations are    *)
(* left to the environment.                                                 *)
Settles ==
  /\ \A p \in Procs : WF_vars(Wake(p))
  /\ \A p \in Procs : WF_vars(\E out \in Outs : CloseDone(p, out))
  /\ \A p \in Procs : WF_vars(\E out \in Outs : LaunchDone(p, out))
  /\ \A p \in Procs : WF_vars(\E out \in Outs : NewPageDone(p, out))
  /\ \A p \in Procs : WF_vars(\E out \in Outs : ViewportDone(p, out))
  /\ \A p \in Procs : WF_vars(\E out \in Outs : GotoDone(p, out))

SpecLive == Init /\ [][NextSession]_vars /\ Settles

(* The frame pipeline under two viewers that connect, close and fail; the  *)
(* session is initialized without failure and only captures fail.          *)
NextStream ==
  \/ Listen
  \/ \E p \in Procs : Wake(p)
  \/ \E p \in Procs : LaunchDone(p, "ok")
  \/ \E p \in Procs : NewPageDone(p, "ok")
  \/ \E p \in Procs : ViewportDone(p, "ok")
  \/ \E p \in Procs : GotoDone(p, "ok")
  \/ \E w \in Subs : Connect(w)
  \/ \E t \in Ticks, w \in Subs : TickFire(t, w)
  \/ \E t \in Ticks, out \in Outs, sz \in Sizes : ScreenshotDone(t, out, sz)
  \/ \E t \in Ticks, out \in Outs : SharpDone(t, out)
  \/ \E w \in Subs : Close(w)
  \/ \E w \in Subs : Error(w)

SpecStream == Init /\ [][NextStream]_vars

(* Viewers that detach while their ticks are in flight: two viewers, two   *)
(* ticks, no backend failure; every capture has the same encoded length.   *)
NextDetach ==
  \/ Listen
  \/ \E p \in Procs : Wake(p)
  \/ \E p \in Procs : LaunchDone(p, "ok")
  \/ \E p \in Procs : NewPageDone(p, "ok")
  \/ \E p \in Procs : ViewportDone(p, "ok")
  \/ \E p \in Procs : GotoDone(p, "ok")
  \/ \E w \in Subs : Connect(w)
  \/ \E t \in Ticks, w \in Subs : TickFire(t, w)
  \/ \E t \in Ticks, sz \in OneSize : ScreenshotDone(t, "ok", sz)
  \/ \E t \in Ticks : SharpDone(t, "ok")
  \/ \E w \in Subs : Close(w)
  \/ \E w \in Subs : Error(w)

SpecDetach == Init /\ [][NextDetach]_vars

(* The navigate command on every target address: the session is           *)
(* initialized without failure and the navigation succeeds or fails.       *)
NextNavigate ==
  \/ Listen
  \/ \E p \in Procs : Wake(p)
  \/ \E p \in Procs : LaunchDone(p, "ok")
  \/ \E p \in Procs : NewPageDone(p, "ok")
  \/ \E p \in Procs : ViewportDone(p, "ok")
  \/ \E p \in Procs : GotoDone(p, "ok")
  \/ \E c \in Cmds, u \in Urls : Request(c, "navigate", u)
  \/ \E c \in Cmds, out \in Outs : OpDone(c, out)

SpecNavigate == Init /\ [][NextNavigate]_vars

(* The frame pipeline under one viewer with two ticks in flight: captures *)
(* of every length, captures and encodes that fail, and the re-            *)
(* initialization that follows a failure.                                  *)
NextPipeline ==
  \/ Listen
  \/ \E p \in Procs : Wake(p)
  \/ \E p \in Procs : LaunchDone(p, "ok")
  \/ \E p \in Procs : NewPageDone(p, "ok")
  \/ \E p \in Procs : ViewportDone(p, "ok")
  \/ \E p \in Procs : GotoDone(p, "ok")
  \/ Connect("ws1")
  \/ \E t \in Ticks : TickFire(t, "ws1")
  \/ \E t \in Ticks, out \in Outs, sz \in Sizes : ScreenshotDone(t, out, sz)
  \/ \E t \in Ticks, out \in Outs : SharpDone(t, out)
  \/ Close("ws1")

SpecPipeline == Init /\ [][NextPipeline]_vars

(* Every control command, succeeding and failing, beside one viewer with  *)
(* one tick in flight; every capture has the same encoded length, so a     *)
(* second frame is sent only after the cached one was dropped.             *)
NextCommands ==
  \/ Listen
  \/ \E c \in Cmds, k \in Kinds, u \in OneUrl : Request(c, k, u)
  \/ \E p \in Procs : Wake(p)
  \/ \E p \in Procs, out \in Outs : LaunchDone(p, out)
  \/ \E p \in Procs : NewPageDone(p, "ok")
  \/ \E p \in Procs : ViewportDone(p, "ok")
  \/ \E p \in Procs : GotoDone(p, "ok")
  \/ \E c \in Cmds, out \in Outs : OpDone(c, out)
  \/ Connect("ws1")
  \/ TickFire("tick1", "ws1")
  \/ \E t \in Ticks, sz \in OneSize : ScreenshotDone(t, "ok", sz)
  \/ \E t \in Ticks : SharpDone(t, "ok")

SpecCommands == Init /\ [][NextCommands]_vars

----------------------------------------------------------------------------
(* frames handed to the connection of w and still pending when its         *)
(* outbound channel never drains: every ws.send of line 532                *)
pending(w) == Len(sent[w])

Inside == {p \in Procs : pc[p] \in InitSection}

(* C1: at most one invocation of initBrowser is inside its initialization  *)
(* section (isInitializing set and not yet reset) at any moment, and the   *)
(* flag is set exactly while one is; every other caller sits in the wait   *)
(* loop.                                                                    *)
C1_SingleInitializer ==
  /\ Cardinality(Inside) <= 1
  /\ isInitializing <=> Inside # {}

C1_Witness ==
  \E p, q \in Procs : pc[p] \in InitSection /\ pc[q] = "wait" /\ site[q] = "api"

C3_NoOrphan == \A b \in alive : b = browser

(* C4: every backend operation of a control command runs on the open page  *)
(* of the session that is Ready at that moment.                             *)
C4_CommandOnReadyPage == \A c \in Cmds : opLive[c]

(* C5: an initBrowser call whose launch or page-open step fails ends with  *)
(* browser and page null and isInitializing false, and its caller sees the *)
(* failure.                                                                 *)
C5_FailedInitClears ==
  lastFail.stage \in {"launch", "newPage"} =>
     /\ lastFail.browser = Null
     /\ lastFail.page = Null
     /\ ~lastFail.isInitializing
     /\ lastFail.thrown

C5_Witness ==
  /\ lastFail.stage = "newPage"
  /\ lastFail.thrown
  /\ browser = Null /\ page = Null /\ ~isInitializing
  /\ alive # {}

(* C6: a session whose landing navigation failed does not become Ready.    *)
C6_LandingFailureDrops ==
  \A b \in landingFailed : ~(Ready(State) /\ page = b)

(* C7: every emitted frame is sent to every connection live at that        *)
(* moment.                                                                  *)
C7_Broadcast == missed = {}

(* C8: no frame is sent that was captured from a session which another    *)
(* session has replaced by the time of the send.                            *)
C8_NoStaleFrame ==
  \A w \in Subs : \A i \in DOMAIN sent[w] :
     sent[w][i].cur \in {Null, sent[w][i].sess}

(* C9: the frames pending on a connection that never drains stay below a   *)
(* bound, however many captures are made.                                   *)
C9_BoundedPending == \A w \in Subs : pending(w) < MaxCaptures

(* C10: when no backend call fails otherwise, each backend crash is        *)
(* followed by one re-initialization: one launch per crash beside the      *)
(* first.                                                                   *)
C10_OneReinitPerCrash == faults = 0 => launches <= 1 + crashes

C12_DetachIsLocal ==
  [][\A w \in Subs :
        (streamInterval[w] /\ ~streamInterval'[w]) =>
           /\ \A v \in Subs \ {w} :
                 /\ streaming'[v] = streaming[v]
                 /\ streamInterval'[v] = streamInterval[v]
                 /\ readyState'[v] = readyState[v]
           /\ browser' = browser
           /\ page' = page
           /\ isInitializing' = isInitializing
           /\ previousScreenshot' = previousScreenshot
           /\ pc' = pc
           /\ alive' = alive]_vars

C12_Witness ==
  /\ readyState["ws1"] = CLOSED /\ ~streaming["ws1"] /\ ~streamInterval["ws1"]
  /\ readyState["ws2"] = OPEN /\ streaming["ws2"] /\ streamInterval["ws2"]
  /\ Ready(State)
  /\ previousScreenshot # Null
  /\ \E t \in Ticks : pc[t] = "sharp" /\ owner[t] = "ws2"

(* C13: the step in which the backend operation of a navigate command      *)
(* fails answers with a failure and leaves browser and page cleared, so    *)
(* that the session is not Ready for the next initBrowser call.            *)
C13_NavigateFailureDrops ==
  [][\A c \in Cmds :
        (pc[c] = "op" /\ kind[c] = "navigate" /\ pc'[c] = "idle"
           /\ res'[c] = "err")
        => (browser' = Null /\ page' = Null /\ ~Ready(State)')]_vars

(* C14: the frames of one session sent on one connection are sent in the   *)
(* order of their capture.                                                  *)
C14_CaptureOrder ==
  \A w \in Subs : \A i, j \in DOMAIN sent[w] :
     (i < j /\ sent[w][i].sess = sent[w][j].sess)
        => sent[w][i].seq < sent[w][j].seq

StartsWith(u, prefix) ==
  Len(u) >= Len(prefix) /\ \A i \in 1..Len(prefix) : u[i] = prefix[i]

Normalized(u) ==
  IF StartsWith(u, HttpScheme) \/ StartsWith(u, HttpsScheme)
  THEN u
  ELSE << "h", "t", "t", "p", "s", ":", "/", "/" >> \o u

(* C15: the address a navigate command goes to is the given address when   *)
(* that starts with http:// or https://, and the given address with        *)
(* https:// put before it otherwise; the address of a successful response  *)
(* is the address gone to.                                                  *)
C15_NavigateNormalizes ==
  \A c \in Cmds :
     /\ (pc[c] = "op" /\ kind[c] = "navigate")
           => nav[c].finalUrl = Normalized(nav[c].url)
     /\ nav[c].reply # << >>
           => /\ res[c] = "ok"
              /\ nav[c].reply = nav[c].finalUrl
              /\ nav[c].finalUrl = Normalized(nav[c].url)

(* a command on an address without a scheme succeeded *)
C15_Witness ==
  \E c \in Cmds :
     /\ res[c] = "ok"
     /\ nav[c].url = << "a", "/" >>
     /\ nav[c].reply = << "h", "t", "t", "p", "s", ":", "/", "/", "a", "/" >>

Distance(a, b) == IF a >= b THEN a - b ELSE b - a

(* C16: the step in which the encode of tick t succeeds emits the frame    *)
(* exactly when no frame is cached or the encoded size differs from the    *)
(* cached one's by 1000 or more; an emitted frame becomes the cached one   *)
(* and is sent on the tick's connection when that is open; a suppressed    *)
(* one leaves the cache as it was and nothing is sent.                     *)
C16_EmitIffChanged ==
  [][\A t \in Ticks :
        (pc[t] = "sharp" /\ pc'[t] = "idle") =>
           LET f == buf[t]
               w == owner[t]
           IN IF previousScreenshot = Null
                 \/ Distance(f.size, previousScreenshot) >= 1000
              THEN /\ previousScreenshot' = f.size
                   /\ \A v \in Subs \ {w} : sent'[v] = sent[v]
                   /\ IF readyState[w] = OPEN
                      THEN /\ Len(sent'[w]) = Len(sent[w]) + 1
                           /\ SubSeq(sent'[w], 1, Len(sent[w])) = sent[w]
                           /\ sent'[w][Len(sent'[w])].seq = f.seq
                      ELSE sent'[w] = sent[w]
              ELSE /\ previousScreenshot' = previousScreenshot
                   /\ sent' = sent]_vars

(* two captures were encoded without failure on a connection that is open: *)
(* one was sent, the other suppressed                                       *)
C16_Witness ==
  /\ captures = 2 /\ faults = 0
  /\ \A t \in Ticks : pc[t] = "idle"
  /\ readyState["ws1"] = OPEN
  /\ Len(sent["ws1"]) = 1
  /\ previousScreenshot # Null

(* C17: a step of a command handler leaves previousScreenshot null when it *)
(* is the success of a navigate, back, forward, refresh or click           *)
(* operation, and unchanged when it is any other step: the arrival of a    *)
(* request, a step of its initBrowser call, the success of a type, key or  *)
(* scroll operation or of get-url, or a failure.                           *)
C17_CacheInvalidation ==
  [][\A c \in Cmds :
        (pc'[c] # pc[c] \/ requests' # requests) =>
           IF /\ pc[c] = "op" /\ res'[c] = "ok"
              /\ kind[c] \in {"navigate", "back", "forward", "refresh", "click"}
           THEN previousScreenshot' = Null
           ELSE previousScreenshot' = previousScreenshot]_vars

(* two captures of the same encoded length were both sent: a command that  *)
(* succeeded between them dropped the cached frame                          *)
C17_Witness ==
  /\ res["req1"] = "ok"
  /\ faults = 0
  /\ Len(sent["ws1"]) = 2
  /\ previousScreenshot # Null

(* C18: the step in which the capture or the encode of tick t fails sends  *)
(* nothing, leaves browser, page and previousScreenshot null and every     *)
(* interval set; the tick then ends without sending.                       *)
C18_CaptureFailureClears ==
  [][\A t \in Ticks :
        /\ (pc[t] \in {"screenshot", "sharp"} /\ pc'[t] \in {"wait", "launch"})
             => /\ browser' = Null /\ page' = Null
                /\ previousScreenshot' = Null
                /\ sent' = sent
                /\ streamInterval' = streamInterval
                /\ streaming' = streaming
        /\ (site[t] = "L393" /\ pc'[t] = "idle") => sent' = sent]_vars

(* after a failed capture or encode, a frame of the session launched next  *)
(* was captured and sent                                                    *)
C18_Witness ==
  /\ faults = 1
  /\ streamInterval["ws1"]
  /\ \E i \in DOMAIN sent["ws1"] : sent["ws1"][i].sess = 2

(* handler p runs the validity check of an initBrowser call in this step:  *)
(* it calls initBrowser or leaves the wait loop                             *)
Checks(p) ==
  /\ pc[p] \in {"idle", "wait"}
  /\ pc'[p] # pc[p] \/ (p \in Cmds /\ requests' # requests)

(* C19: an initBrowser call that runs its validity check while the session *)
(* is Ready and no initialization is in progress launches and closes       *)
(* nothing, leaves browser, page, isInitializing and previousScreenshot    *)
(* unchanged, and its caller goes on with the existing browser and page.   *)
C19_ReadyIsNoOp ==
  [][\A p \in Procs :
        (Checks(p) /\ Ready(State) /\ ~isInitializing) =>
           /\ browser' = browser /\ page' = page
           /\ isInitializing' = isInitializing
           /\ previousScreenshot' = previousScreenshot
           /\ launches' = launches
           /\ alive' = alive /\ closed' = closed
           /\ pc'[p] \notin InitSection \cup {"wait"}
           /\ pc'[p] \in {"op", "screenshot"} =>
                 /\ loc'[p] = page
                 /\ ret'[p].set
                 /\ ret'[p].browser = browser /\ ret'[p].page = page]_vars

(* a command that called initBrowser after the startup initialization had  *)
(* finished, without waiting and without a launch of its own, operates on  *)
(* the page of that session                                                 *)
C19_Witness ==
  /\ launches = 1 /\ faults = 0 /\ crashes = 0
  /\ pc[Startup] = "done"
  /\ Ready(State)
  /\ \E c \in Cmds :
       /\ pc[c] = "op" /\ loc[c] = page
       /\ ret[c].set /\ ~ret[c].waited /\ ret[c].page = page

InCall == {p \in Procs : pc[p] \in InitSection \cup {"wait"}}

====
